---- MODULE Spec2Model ----
(***************************************************************************)
(* A model of app.py (flask-vcoach): the text utilities (clean_text,       *)
(* chunk_text, safe_json), the provider fallback (groq_text, gemini_text)  *)
(* and the routes that aggregate per-chunk provider answers.               *)
(*                                                                         *)
(* A Python str is a sequence of lexemes.  A lexeme is one character, or a *)
(* word: a maximal run of letters written as one string ("true",           *)
(* "compatibility_percent").  Words hold no whitespace, control, quote or  *)
(* structural character, and no word of the model is a prefix of or a      *)
(* concatenation of others, so two lexeme sequences are equal exactly when *)
(* the Python strings are.  len() is modelled only on texts of one-        *)
(* character lexemes (the CV and the job text).                            *)
(***************************************************************************)
EXTENDS Integers, Sequences, FiniteSets, TLC

VARIABLES
    fn_pc,      \* pure functions: "input", "cleaned", "parsed" or "chunked"
    fn_text,    \* the text argument
    fn_size,    \* chunk_size
    fn_obj,     \* the JSON object fn_text was written around, or <<>>
    fn_out,     \* clean_text's result
    fn_json,    \* safe_json's result
    fn_chunks,  \* chunk_text's result
    USE_GROQ,       \* bool(GROQ_API_KEY)
    groq_client,    \* whether groq_client is a client (TRUE) or None
    gemini_client,  \* whether gemini_client is a client (TRUE) or None
    orch_pc,          \* a call of a provider function: "call" or "returned"
    orch_fn,          \* the function called: "gemini_text" or "groq_text"
    orch_groq_out,    \* what the Groq SDK call does when it is made
    orch_gemini_out,  \* what the Gemini SDK call does when it is made
    orch_res,         \* what the function gave back
    MEMORY,           \* the module's MEMORY dict
    route,            \* the route of the request being handled, or "idle"
    pc,               \* where its handler is: "idle", "chunks" or "done"
    cv_clean,         \* the handler's locals, named as in the code
    job_clean,
    cv_chunks,
    job_chunks,
    chunk_feedbacks,
    chunk_scores,
    quality,          \* analyze_cv_quality's five lists
    sent,             \* the (CV chunk, job chunk) of each per-chunk prompt sent
    chunk_ok,         \* per chunk: whether the answer was the object asked for
    trace,            \* the providers invoked for the last prompt, in order
    resp,             \* the response, once pc = "done"
    memory_before,    \* MEMORY["cv_text"] when the request being handled started
    th_pc,            \* concurrent requests, per thread: where its handler is
    th_route,         \* the route the thread is handling, or "idle"
    th_own,           \* whether the request's own body supplied cv_text
    th_cv,            \* the handler's local cv_raw, then cv
    th_resp,          \* the status code the thread answered with, or 0
    th_after_clear,   \* whether the request started under cleared
    cleared           \* clear_memory completed and no request that brought
                      \* its own cv_text has stored it since

fn_vars     == <<fn_pc, fn_text, fn_size, fn_obj, fn_out, fn_json, fn_chunks>>
config_vars == <<USE_GROQ, groq_client, gemini_client>>
orch_vars   == <<orch_pc, orch_fn, orch_groq_out, orch_gemini_out, orch_res>>
local_vars  == <<cv_clean, job_clean, cv_chunks, job_chunks, chunk_feedbacks,
                 chunk_scores, quality, sent, chunk_ok, trace, memory_before>>
thread_vars == <<th_pc, th_route, th_own, th_cv, th_resp, th_after_clear, cleared>>
route_vars  == <<MEMORY, route, pc, local_vars, resp>>
vars        == <<fn_vars, config_vars, orch_vars, route_vars, thread_vars>>

----------------------------------------------------------------------------
(* Characters *)

SP  == " "      \* U+0020
NL  == "\n"     \* U+000A: whitespace (\s) and a control character
TAB == "\t"     \* U+0009: whitespace (\s) and a control character
SOH == "^A"     \* U+0001: a control character that is not whitespace
FENCE == "<fence>"  \* the three backquotes of a markdown fence
QT  == "\""     \* the double quote

\* Python's \s on str, and str.strip(): here space, newline, tab.
IsSpace(c) == c \in {SP, NL, TAB}

\* [\x00-\x1F]
IsControl(c) == c \in {NL, TAB, SOH}

\* The text of a JSON string without escapes: the body between quotes.
JString(body) == <<QT>> \o body \o <<QT>>

Digit == {"0", "1", "2", "3", "4", "5", "6", "7", "8", "9"}

DigitVal(c) ==
    CASE c = "0" -> 0 [] c = "1" -> 1 [] c = "2" -> 2 [] c = "3" -> 3
      [] c = "4" -> 4 [] c = "5" -> 5 [] c = "6" -> 6 [] c = "7" -> 7
      [] c = "8" -> 8 [] c = "9" -> 9

----------------------------------------------------------------------------
(* clean_text *)

SetMin(S) == CHOOSE x \in S : \A y \in S : x <= y
SetMax(S) == CHOOSE x \in S : \A y \in S : x >= y

\* A mark for a position a substitution deletes; no lexeme of a text.
DROPPED == "<dropped>"

\* re.sub(r'\s+', ' ', text): every maximal run of whitespace becomes one
\* space (the first character of the run becomes the space, the others go).
CollapseSpaces(text) ==
    LET marked == [i \in 1..Len(text) |->
                     IF ~IsSpace(text[i]) THEN text[i]
                     ELSE IF i > 1 /\ IsSpace(text[i - 1]) THEN DROPPED
                     ELSE SP]
    IN  SelectSeq(marked, LAMBDA c : c # DROPPED)

\* re.sub(r'[\x00-\x1F]+', '', text)
RemoveControl(text) == SelectSeq(text, LAMBDA c : ~IsControl(c))

\* str.strip(): from the first to the last character that is not whitespace.
Strip(text) ==
    LET n     == Len(text)
        solid == {i \in 1..n : ~IsSpace(text[i])}
    IN  IF solid = {} THEN <<>>
        ELSE SubSeq(text,
                    CHOOSE i \in solid : \A j \in 1..(i - 1) : IsSpace(text[j]),
                    CHOOSE i \in solid : \A j \in (i + 1)..n : IsSpace(text[j]))

clean_text(text) == Strip(RemoveControl(CollapseSpaces(text)))

----------------------------------------------------------------------------
(* chunk_text *)

Min(a, b) == IF a < b THEN a ELSE b
Max(a, b) == IF a > b THEN a ELSE b

\* chunk_text with the slip start = end + 1: the character between two
\* chunks is lost.
RECURSIVE ChunkLoopSkipping(_, _, _)
ChunkLoopSkipping(text, chunk_size, start) ==
    IF start < Len(text)
    THEN LET end == Min(start + chunk_size, Len(text))
         IN  <<SubSeq(text, start + 1, end)>> \o ChunkLoopSkipping(text, chunk_size, end + 1)
    ELSE <<>>

chunk_text_skipping(text, chunk_size) == ChunkLoopSkipping(text, chunk_size, 0)

\* The while loop of chunk_text, from position start (0-based, as in the
\* code); text[start:end] is SubSeq(text, start + 1, end).
RECURSIVE ChunkLoop(_, _, _)
ChunkLoop(text, chunk_size, start) ==
    IF start < Len(text)
    THEN LET end == Min(start + chunk_size, Len(text))
         IN  <<SubSeq(text, start + 1, end)>> \o ChunkLoop(text, chunk_size, end)
    ELSE <<>>

chunk_text(text, chunk_size) == ChunkLoop(text, chunk_size, 0)

----------------------------------------------------------------------------
(* Python values, as json.loads builds them.  Every value has the same     *)
(* fields so that values of different types can be compared:               *)
(*   t  "none", "bool", "num", "str", "obj" or "arr"                       *)
(*   n  the int (or 1/0 for True/False)                                    *)
(*   s  the str                                                            *)
(*   o  the dict, a function from keys (str) to values                     *)
(*   a  the list, a sequence of values                                     *)

JV(t, n, s, o, a) == [t |-> t, n |-> n, s |-> s, o |-> o, a |-> a]

None     == JV("none", 0, <<>>, <<>>, <<>>)
JBool(b) == JV("bool", IF b THEN 1 ELSE 0, <<>>, <<>>, <<>>)
JNum(n)  == JV("num", n, <<>>, <<>>, <<>>)
JStr(s)  == JV("str", 0, s, <<>>, <<>>)
JObj(o)  == JV("obj", 0, <<>>, o, <<>>)
JArr(a)  == JV("arr", 0, <<>>, <<>>, a)

\* bool(v) is False: None, False, 0, "", {} and [].
Falsy(v) ==
    \/ v.t = "none"
    \/ v.t \in {"bool", "num"} /\ v.n = 0
    \/ v.t = "str" /\ v.s = <<>>
    \/ v.t = "obj" /\ DOMAIN v.o = {}
    \/ v.t = "arr" /\ v.a = <<>>

----------------------------------------------------------------------------
(* json.loads (the standard library's decoder, strict mode), on texts      *)
(* without backslash, '.', 'e', NaN and Infinity.  A parse result is       *)
(* [ok, v, i]: whether it succeeded, the value, the index after it;        *)
(* ~ok is json.JSONDecodeError.                                            *)

Fail     == [ok |-> FALSE, v |-> None, i |-> 0]
Ok(v, i) == [ok |-> TRUE, v |-> v, i |-> i]

\* json's WHITESPACE, [ \t\n\r]*, matched at i: the index after the run.
SkipWs(s, i) ==
    SetMin({j \in i..(Len(s) + 1) : j > Len(s) \/ s[j] \notin {SP, NL, TAB}})

\* scanstring from i, the index after the opening quote: up to the next
\* quote; a control character inside the string is an error.
ScanString(s, i) ==
    LET quotes == {j \in i..Len(s) : s[j] = QT}
    IN  IF quotes = {} THEN Fail
        ELSE LET close == SetMin(quotes)
                 body  == SubSeq(s, i, close - 1)
             IN  IF \E j \in 1..Len(body) : IsControl(body[j]) THEN Fail
                 ELSE Ok(JStr(body), close + 1)

\* The index after the run of digits at i.
DigitsEnd(s, i) ==
    SetMin({j \in i..(Len(s) + 1) : j > Len(s) \/ s[j] \notin Digit})

RECURSIVE DecVal(_)
DecVal(ds) ==
    IF ds = <<>> THEN 0
    ELSE 10 * DecVal(SubSeq(ds, 1, Len(ds) - 1)) + DigitVal(ds[Len(ds)])

\* NUMBER_RE: -?(0|[1-9][0-9]*), the integer part only.
ScanNumber(s, i) ==
    LET neg == s[i] = "-"
        j   == IF neg THEN i + 1 ELSE i
    IN  IF j > Len(s) \/ s[j] \notin Digit THEN Fail
        ELSE IF s[j] = "0" THEN Ok(JNum(0), j + 1)
        ELSE LET e == DigitsEnd(s, j)
                 n == DecVal(SubSeq(s, j, e - 1))
             IN  Ok(JNum(IF neg THEN 0 - n ELSE n), e)

RECURSIVE ScanOnce(_, _)
RECURSIVE ScanMembers(_, _, _)
RECURSIVE ScanElements(_, _, _)

\* JSONObject's loop, at the index where a key's quote must stand.
ScanMembers(s, i, acc) ==
    IF i > Len(s) \/ s[i] # QT THEN Fail
    ELSE LET k == ScanString(s, i + 1)
         IN  IF ~k.ok THEN Fail
             ELSE LET c == SkipWs(s, k.i)
                  IN  IF c > Len(s) \/ s[c] # ":" THEN Fail
                      ELSE LET v == ScanOnce(s, SkipWs(s, c + 1))
                           IN  IF ~v.ok THEN Fail
                               ELSE LET e    == SkipWs(s, v.i)
                                        acc2 == (k.v.s :> v.v) @@ acc
                                    IN  IF e > Len(s) THEN Fail
                                        ELSE IF s[e] = "}" THEN Ok(JObj(acc2), e + 1)
                                        ELSE IF s[e] = ","
                                             THEN ScanMembers(s, SkipWs(s, e + 1), acc2)
                                        ELSE Fail

\* JSONArray's loop, at the index where an element must start.
ScanElements(s, i, acc) ==
    LET v == ScanOnce(s, i)
    IN  IF ~v.ok THEN Fail
        ELSE LET e    == SkipWs(s, v.i)
                 acc2 == Append(acc, v.v)
             IN  IF e > Len(s) THEN Fail
                 ELSE IF s[e] = "]" THEN Ok(JArr(acc2), e + 1)
                 ELSE IF s[e] = "," THEN ScanElements(s, SkipWs(s, e + 1), acc2)
                 ELSE Fail

\* scan_once(s, i)
ScanOnce(s, i) ==
    IF i > Len(s) THEN Fail
    ELSE IF s[i] = QT THEN ScanString(s, i + 1)
    ELSE IF s[i] = "{"
         THEN LET j == SkipWs(s, i + 1)
              IN  IF j <= Len(s) /\ s[j] = "}" THEN Ok(JObj(<<>>), j + 1)
                  ELSE ScanMembers(s, j, <<>>)
    ELSE IF s[i] = "["
         THEN LET j == SkipWs(s, i + 1)
              IN  IF j <= Len(s) /\ s[j] = "]" THEN Ok(JArr(<<>>), j + 1)
                  ELSE ScanElements(s, j, <<>>)
    ELSE IF s[i] = "null" THEN Ok(None, i + 1)
    ELSE IF s[i] = "true" THEN Ok(JBool(TRUE), i + 1)
    ELSE IF s[i] = "false" THEN Ok(JBool(FALSE), i + 1)
    ELSE IF s[i] \in Digit \cup {"-"} THEN ScanNumber(s, i)
    ELSE Fail

\* json.loads(s): one value between optional whitespace, and nothing else.
json_loads(s) ==
    LET r == ScanOnce(s, SkipWs(s, 1))
    IN  IF r.ok /\ SkipWs(s, r.i) = Len(s) + 1 THEN Ok(r.v, r.i) ELSE Fail

----------------------------------------------------------------------------
(* safe_json *)

Indices(s, c) == {i \in 1..Len(s) : s[i] = c}

\* re.search(r"\{.*\}", text, re.S | re.M): from the first '{' to the last
\* '}' after it.
BraceMatch(text) ==
    LET opens  == Indices(text, "{")
        closes == Indices(text, "}")
    IN  IF opens # {} /\ closes # {} /\ SetMax(closes) > SetMin(opens)
        THEN [found |-> TRUE, group |-> SubSeq(text, SetMin(opens), SetMax(closes))]
        ELSE [found |-> FALSE, group |-> <<>>]

safe_json(text) ==
    IF text = <<>> THEN None
    ELSE LET cleaned == clean_text(text)
             direct  == json_loads(cleaned)
         IN  IF direct.ok THEN direct.v
             ELSE LET match == BraceMatch(cleaned)
                  IN  IF match.found /\ json_loads(match.group).ok
                      THEN json_loads(match.group).v
                      ELSE None

----------------------------------------------------------------------------
(* The providers.  What an SDK call does is an input: it raises (also      *)
(* when the answer holds no text, for .strip() of None raises inside the   *)
(* same try), or it answers with a text.                                   *)

Raises      == [err |-> TRUE, text |-> <<>>]
Answers(t)  == [err |-> FALSE, text |-> t]

Call(provider, outcome) == [provider |-> provider, outcome |-> outcome]

\* What gemini_text and groq_text give back: the text returned, whether an
\* exception left the function, and the providers invoked in order.
Returned(text, invoked) == [text |-> text, raised |-> FALSE, calls |-> invoked]

\* groq_text without its try: the SDK's exception leaves the function.
groq_text_unguarded(groq_out) ==
    IF ~groq_client THEN Returned(<<>>, <<>>)
    ELSE IF ~groq_out.err
         THEN Returned(Strip(groq_out.text), <<Call("groq", groq_out)>>)
         ELSE [text |-> <<>>, raised |-> TRUE, calls |-> <<Call("groq", groq_out)>>]

\* groq_text(prompt), when the Groq call has outcome groq_out.
groq_text(groq_out) ==
    IF ~groq_client THEN Returned(<<>>, <<>>)
    ELSE IF ~groq_out.err
         THEN Returned(Strip(groq_out.text), <<Call("groq", groq_out)>>)
         ELSE Returned(<<>>, <<Call("groq", groq_out)>>)

\* gemini_text that gives up when Groq raises.
gemini_text_no_fallback(groq_out, gemini_out) ==
    IF USE_GROQ /\ groq_client
    THEN IF ~groq_out.err
         THEN Returned(Strip(groq_out.text), <<Call("groq", groq_out)>>)
         ELSE Returned(<<>>, <<Call("groq", groq_out)>>)
    ELSE IF gemini_client /\ ~gemini_out.err
         THEN Returned(Strip(gemini_out.text), <<Call("gemini", gemini_out)>>)
         ELSE Returned(<<>>, IF gemini_client THEN <<Call("gemini", gemini_out)>> ELSE <<>>)

\* gemini_text that goes on to Gemini after Groq has answered (the return
\* in the Groq branch is missing) and returns Gemini's answer when it has one.
gemini_text_no_return(groq_out, gemini_out) ==
    LET first == IF USE_GROQ /\ groq_client THEN <<Call("groq", groq_out)>> ELSE <<>>
        kept  == IF USE_GROQ /\ groq_client /\ ~groq_out.err
                 THEN Strip(groq_out.text) ELSE <<>>
    IN  IF gemini_client
        THEN IF ~gemini_out.err
             THEN Returned(Strip(gemini_out.text), first \o <<Call("gemini", gemini_out)>>)
             ELSE Returned(kept, first \o <<Call("gemini", gemini_out)>>)
        ELSE Returned(kept, first)

\* gemini_text(prompt), when the Groq call (if made) has outcome groq_out and
\* the Gemini call (if made) has outcome gemini_out.
gemini_text(groq_out, gemini_out) ==
    LET first == IF USE_GROQ /\ groq_client THEN <<Call("groq", groq_out)>> ELSE <<>>
    IN  IF USE_GROQ /\ groq_client /\ ~groq_out.err
        THEN Returned(Strip(groq_out.text), first)
        ELSE IF gemini_client
             THEN IF ~gemini_out.err
                  THEN Returned(Strip(gemini_out.text), first \o <<Call("gemini", gemini_out)>>)
                  ELSE Returned(<<>>, first \o <<Call("gemini", gemini_out)>>)
             ELSE Returned(<<>>, first)

\* The module-level initialisation: a client exists only when its key is
\* set, and its construction may fail.
ConfigInit ==
    /\ USE_GROQ \in BOOLEAN
    /\ groq_client \in (IF USE_GROQ THEN BOOLEAN ELSE {FALSE})
    /\ gemini_client \in BOOLEAN

\* No key is set: neither client exists.
ConfigNone ==
    /\ USE_GROQ = FALSE
    /\ groq_client = FALSE
    /\ gemini_client = FALSE

----------------------------------------------------------------------------
(* gemini_text and groq_text, called once with bounded provider outcomes. *)

OrchReplies ==
    { <<>>, <<SP>>, <<NL, SP>>, <<"a">>, <<SP, "a", NL>>, <<"b", SP, "b">>, <<SOH>> }

OrchOutcomes == {Raises} \cup {Answers(t) : t \in OrchReplies}

OrchIdle ==
    /\ orch_pc = "idle"
    /\ orch_fn = "none"
    /\ orch_groq_out = Raises
    /\ orch_gemini_out = Raises
    /\ orch_res = Returned(<<>>, <<>>)

OrchInit ==
    /\ ConfigInit
    /\ orch_pc = "call"
    /\ orch_fn \in {"gemini_text", "groq_text"}
    /\ orch_groq_out \in OrchOutcomes
    /\ orch_gemini_out \in OrchOutcomes
    /\ orch_res = Returned(<<>>, <<>>)

CallGeminiText ==
    /\ orch_pc = "call"
    /\ orch_fn = "gemini_text"
    /\ orch_res' = gemini_text(orch_groq_out, orch_gemini_out)
    /\ orch_pc' = "returned"
    /\ UNCHANGED <<orch_fn, orch_groq_out, orch_gemini_out>>

CallGroqText ==
    /\ orch_pc = "call"
    /\ orch_fn = "groq_text"
    /\ orch_res' = groq_text(orch_groq_out)
    /\ orch_pc' = "returned"
    /\ UNCHANGED <<orch_fn, orch_groq_out, orch_gemini_out>>

----------------------------------------------------------------------------
(* Python operations the routes apply to what safe_json returned.  An      *)
(* operation that raises gives [exc |-> TRUE].                             *)

Key(word) == <<word>>

\* key in v, for a str key of one word and a v that is dict, list or str.
Contains(v, key) ==
    CASE v.t = "obj" -> key \in DOMAIN v.o
      [] v.t = "arr" -> \E i \in 1..Len(v.a) : v.a[i] = JStr(key)
      [] v.t = "str" -> \E i \in 1..Len(v.s) : v.s[i] = key[1]
      [] OTHER -> FALSE

\* d.get(key, default) of a dict d.
Get(d, key, default) == IF key \in DOMAIN d.o THEN d.o[key] ELSE default

\* sum() accepts int and bool.
IsNumber(v) == v.t \in {"num", "bool"}

RECURSIVE Sum(_)
Sum(values) == IF values = <<>> THEN 0 ELSE Head(values).n + Sum(Tail(values))

\* n / d rounded to the nearest integer, for d > 0 (halves away from zero).
RoundDiv(n, d) ==
    IF n >= 0 THEN (2 * n + d) \div (2 * d) ELSE 0 - ((2 * (0 - n) + d) \div (2 * d))

\* The mean rounded to the nearest integer instead of truncated.
int_mean_rounded(values) == RoundDiv(Sum(values), Len(values))

\* int(x / d) for d > 0: the quotient truncated toward zero.
TruncDiv(n, d) == IF n >= 0 THEN n \div d ELSE 0 - ((0 - n) \div d)

\* int(sum(values) / len(values)), for a non-empty list of numbers.
int_mean(values) == TruncDiv(Sum(values), Len(values))

\* sep.join(strs), for a list of str.
RECURSIVE Join(_, _)
Join(sep, strs) ==
    IF strs = <<>> THEN <<>>
    ELSE IF Len(strs) = 1 THEN strs[1].s
    ELSE strs[1].s \o sep \o Join(sep, Tail(strs))

\* api_response(payload, error, code); the error message is not modelled.
api_response(payload, error, code) ==
    [status |-> IF error THEN "error" ELSE "ok", payload |-> payload,
     error |-> error, code |-> code, unhandled |-> FALSE]

\* An exception no handler catches: Flask answers 500.
Unhandled ==
    [status |-> "error", payload |-> None, error |-> TRUE, code |-> 500,
     unhandled |-> TRUE]

NoResponse ==
    [status |-> "none", payload |-> None, error |-> FALSE, code |-> 0,
     unhandled |-> FALSE]

\* MEMORY["cv_text"]: None or a str.
NoText      == [none |-> TRUE, text |-> <<>>]
SomeText(t) == [none |-> FALSE, text |-> t]

\* a or b or "", for a = data.get("cv_text") and b = MEMORY.get("cv_text").
CvRaw(body_cv) ==
    IF ~body_cv.none /\ body_cv.text # <<>> THEN body_cv.text
    ELSE IF ~MEMORY.cv_text.none /\ MEMORY.cv_text.text # <<>> THEN MEMORY.cv_text.text
    ELSE <<>>

\* zip_longest(xs, ys, fillvalue="")
ZipLongest(xs, ys) ==
    [i \in 1..Max(Len(xs), Len(ys)) |->
        << IF i <= Len(xs) THEN xs[i] ELSE <<>>,
           IF i <= Len(ys) THEN ys[i] ELSE <<>> >>]

----------------------------------------------------------------------------
(* The routes.  One request is handled at a time; a handler that calls the *)
(* providers in a loop takes one step per iteration.  The body of a        *)
(* request is a JSON object whose fields, when present, are strings.       *)

ChunkSizeScaled == 2   \* stands for chunk_size=3000 in the two chunked routes
MaxChunks       == 3   \* the longest body text makes this many chunks

DEFAULT_PERCENT == 70
EMPTY_PERCENT   == 75
DEFAULT_SCORE   == 7

CP == Key("compatibility_percent")
FM == Key("feedback_markdown")

\* "Fragmentul CV-ului are relevanță parțială ...", abbreviated.
DEFAULT_FEEDBACK == <<"Fragmentul", SP, "are", SP, "relevanta", SP, "partiala">>

DefaultChunk == [exc |-> FALSE, feedback |-> JStr(DEFAULT_FEEDBACK),
                 score |-> JNum(DEFAULT_PERCENT)]

RaisedInChunk == [exc |-> TRUE, feedback |-> None, score |-> None]

\* analyze_cv, from safe_json(raw_chunk) to the two values appended.
AnalyzeCvParsed(parsed_chunk) ==
    IF Falsy(parsed_chunk) THEN DefaultChunk
    ELSE IF parsed_chunk.t \notin {"obj", "arr", "str"} THEN RaisedInChunk
    ELSE IF ~Contains(parsed_chunk, CP) \/ ~Contains(parsed_chunk, FM) THEN DefaultChunk
    ELSE IF parsed_chunk.t # "obj" THEN RaisedInChunk
    ELSE [exc |-> FALSE, feedback |-> parsed_chunk.o[FM], score |-> parsed_chunk.o[CP]]

\* Whether a chunk's answer parsed to the object the prompt asks for.
WellFormedCv(parsed_chunk) ==
    /\ parsed_chunk.t = "obj"
    /\ CP \in DOMAIN parsed_chunk.o
    /\ FM \in DOMAIN parsed_chunk.o
    /\ parsed_chunk.o[CP].t = "num"
    /\ parsed_chunk.o[FM].t = "str"

EmptyQuality == [clarity |-> <<>>, relevance |-> <<>>, structure |-> <<>>,
                 improvements |-> <<>>, rephrasings |-> <<>>]

\* A new request starts with fresh locals.
ResetChunkLocals ==
    /\ job_clean' = <<>>
    /\ cv_chunks' = <<>>
    /\ job_chunks' = <<>>
    /\ chunk_feedbacks' = <<>>
    /\ chunk_scores' = <<>>
    /\ quality' = EmptyQuality
    /\ sent' = <<>>
    /\ chunk_ok' = <<>>
    /\ memory_before' = MEMORY.cv_text

ResetLocals ==
    /\ ResetChunkLocals
    /\ cv_clean' = <<>>
    /\ trace' = <<>>

RouteIdle ==
    /\ MEMORY = [cv_text |-> NoText]
    /\ route = "idle"
    /\ pc = "idle"
    /\ cv_clean = <<>>
    /\ job_clean = <<>>
    /\ cv_chunks = <<>>
    /\ job_chunks = <<>>
    /\ chunk_feedbacks = <<>>
    /\ chunk_scores = <<>>
    /\ quality = EmptyQuality
    /\ sent = <<>>
    /\ chunk_ok = <<>>
    /\ trace = <<>>
    /\ resp = NoResponse
    /\ memory_before = NoText

\* The request bodies.
Alternating(n, x, y) == [i \in 1..n |-> IF i % 2 = 1 THEN x ELSE y]

BodyCvs ==
    { NoText, SomeText(<<SP>>), SomeText(<<"a">>),
      SomeText(Alternating((MaxChunks - 1) * ChunkSizeScaled + 1, "a", "b")) }

BodyJobs ==
    { <<>>, <<SOH>>, <<"j">>, <<SP, "j", SP, SP, "k", NL>>,
      Alternating((MaxChunks - 1) * ChunkSizeScaled + 1, "j", "k") }

\* What the providers answer to a per-chunk prompt of analyze_cv.
CvObject(percent, feedback) ==
    <<"{">> \o JString(CP) \o <<":", SP>> \o percent \o <<",", SP>>
        \o JString(FM) \o <<":", SP>> \o feedback \o <<"}">>

CvReplies ==
    { CvObject(<<"7", "1">>, JString(<<"ok">>)),
      CvObject(<<"-", "8", "0">>, JString(<<"no">>)),
      CvObject(JString(<<"8", "0">>), JString(<<"ok">>)),
      CvObject(<<"8", "0">>, <<"5">>),
      <<"{">> \o JString(CP) \o <<":", SP, "8", "0", "}">>,
      <<"Sorry", SP, "no", SP, "JSON">>,
      <<"5">>,
      <<"[", "1", "]">>,
      <<SP>> }

CvGroqOutcomes   == {Raises} \cup {Answers(t) : t \in CvReplies}
CvGeminiOutcomes ==
    {Raises, Answers(CvObject(<<"7", "1">>, JString(<<"ok">>))), Answers(<<"5">>)}

\* What the providers answer to the rewrite prompt.
RewriteOutcomes == {Raises, Answers(<<"rewritten">>), Answers(<<SP>>)}

AnalyzeCvStart(body_cv, body_job) ==
    /\ pc = "idle"
    /\ route' = "analyze_cv"
    /\ LET cv_raw  == CvRaw(body_cv)
           job_raw == Strip(body_job)
       IN  IF cv_raw = <<>> \/ job_raw = <<>>
           THEN /\ resp' = api_response(None, TRUE, 400)
                /\ pc' = "done"
                /\ ResetLocals
                /\ UNCHANGED MEMORY
           ELSE /\ cv_clean' = clean_text(cv_raw)
                /\ job_clean' = clean_text(job_raw)
                /\ MEMORY' = [MEMORY EXCEPT !.cv_text = SomeText(clean_text(cv_raw))]
                /\ cv_chunks' = chunk_text(clean_text(cv_raw), ChunkSizeScaled)
                /\ job_chunks' = chunk_text(clean_text(job_raw), ChunkSizeScaled)
                /\ chunk_feedbacks' = <<>>
                /\ chunk_scores' = <<>>
                /\ quality' = EmptyQuality
                /\ sent' = <<>>
                /\ chunk_ok' = <<>>
                /\ trace' = <<>>
                /\ memory_before' = MEMORY.cv_text
                /\ resp' = NoResponse
                /\ pc' = "chunks"

\* One iteration of the loop over zip_longest(cv_chunks, job_chunks).
AnalyzeCvChunk(groq_out, gemini_out) ==
    /\ route = "analyze_cv"
    /\ pc = "chunks"
    /\ Len(sent) < Max(Len(cv_chunks), Len(job_chunks))
    /\ \E parsed_chunk \in {safe_json(gemini_text(groq_out, gemini_out).text)} :
         LET pair == ZipLongest(cv_chunks, job_chunks)[Len(sent) + 1]
             got  == AnalyzeCvParsed(parsed_chunk)
         IN
           /\ sent' = Append(sent, pair)
           /\ chunk_ok' = Append(chunk_ok, WellFormedCv(parsed_chunk))
           /\ IF got.exc
              THEN /\ resp' = api_response(None, TRUE, 500)
                   /\ pc' = "done"
                   /\ UNCHANGED <<chunk_feedbacks, chunk_scores>>
              ELSE /\ chunk_feedbacks' = Append(chunk_feedbacks, got.feedback)
                   /\ chunk_scores' = Append(chunk_scores, got.score)
                   /\ UNCHANGED <<resp, pc>>
    /\ UNCHANGED <<MEMORY, route, cv_clean, job_clean, cv_chunks, job_chunks,
                   quality, trace, memory_before>>

\* After the loop: the join, the rewrite prompt, the score, the response.
AnalyzeCvFinish(groq_out, gemini_out) ==
    /\ route = "analyze_cv"
    /\ pc = "chunks"
    /\ Len(sent) = Max(Len(cv_chunks), Len(job_chunks))
    /\ IF \E i \in 1..Len(chunk_feedbacks) : chunk_feedbacks[i].t # "str"
       THEN \* "\n\n".join raises before the rewrite prompt is sent
            /\ resp' = api_response(None, TRUE, 500)
            /\ UNCHANGED trace
       ELSE \E rewrite \in {gemini_text(groq_out, gemini_out)} :
            LET combined_feedback == Join(<<NL, NL>>, chunk_feedbacks)
                res_final == IF Strip(rewrite.text) = <<>> THEN combined_feedback
                             ELSE rewrite.text
                final_score == IF chunk_scores # <<>> THEN int_mean(chunk_scores)
                               ELSE EMPTY_PERCENT
            IN  /\ trace' = rewrite.calls
                /\ resp' = IF \A i \in 1..Len(chunk_scores) : IsNumber(chunk_scores[i])
                           THEN api_response(
                                    JObj((CP :> JNum(final_score))
                                         @@ (FM :> JStr(res_final))),
                                    FALSE, 200)
                           ELSE api_response(None, TRUE, 500)
    /\ pc' = "done"
    /\ UNCHANGED <<MEMORY, route, cv_clean, job_clean, cv_chunks, job_chunks,
                   chunk_feedbacks, chunk_scores, quality, sent, chunk_ok,
                   memory_before>>

----------------------------------------------------------------------------
(* analyze_cv_quality *)

MAX_SUGGESTIONS == 10

CLARITY      == Key("clarity_score")
RELEVANCE    == Key("relevance_score")
STRUCTURE    == Key("structure_score")
IMPROVEMENTS == Key("concrete_improvements")
REPHRASINGS  == Key("suggested_rephrasings")

DefaultQualityChunk ==
    JObj((CLARITY :> JNum(DEFAULT_SCORE)) @@ (RELEVANCE :> JNum(DEFAULT_SCORE))
         @@ (STRUCTURE :> JNum(DEFAULT_SCORE)) @@ (IMPROVEMENTS :> JArr(<<>>))
         @@ (REPHRASINGS :> JArr(<<>>)))

\* Whether list.extend(v) works: v is iterable.
Iterable(v) == v.t \in {"arr", "str", "obj"}

\* The elements of a set in some fixed order; extend() of a dict adds its
\* keys (their insertion order is not kept by the model's dict).
RECURSIVE SetToSeq(_)
SetToSeq(S) ==
    IF S = {} THEN <<>>
    ELSE LET x == CHOOSE y \in S : TRUE IN <<x>> \o SetToSeq(S \ {x})

\* The items list.extend(v) adds.
Items(v) ==
    CASE v.t = "arr" -> v.a
      [] v.t = "str" -> [i \in 1..Len(v.s) |-> JStr(<<v.s[i]>>)]
      [] v.t = "obj" -> LET keys == SetToSeq(DOMAIN v.o)
                        IN  [i \in 1..Len(keys) |-> JStr(keys[i])]

\* analyze_cv_quality, from safe_json(raw_chunk) to the five lists.
QualityParsed(parsed_chunk, lists) ==
    LET chunk == IF Falsy(parsed_chunk) THEN DefaultQualityChunk ELSE parsed_chunk
    IN  IF chunk.t # "obj" THEN [exc |-> TRUE, lists |-> lists]
        ELSE LET improvements == Get(chunk, IMPROVEMENTS, JArr(<<>>))
                 rephrasings  == Get(chunk, REPHRASINGS, JArr(<<>>))
             IN  IF ~Iterable(improvements) \/ ~Iterable(rephrasings)
                 THEN [exc |-> TRUE, lists |-> lists]
                 ELSE [exc |-> FALSE,
                       lists |->
                         [clarity   |-> Append(lists.clarity,
                                               Get(chunk, CLARITY, JNum(DEFAULT_SCORE))),
                          relevance |-> Append(lists.relevance,
                                               Get(chunk, RELEVANCE, JNum(DEFAULT_SCORE))),
                          structure |-> Append(lists.structure,
                                               Get(chunk, STRUCTURE, JNum(DEFAULT_SCORE))),
                          improvements |-> lists.improvements \o Items(improvements),
                          rephrasings  |-> lists.rephrasings \o Items(rephrasings)]]

\* Whether a chunk's answer parsed to the object the prompt asks for.
WellFormedQuality(parsed_chunk) ==
    /\ parsed_chunk.t = "obj"
    /\ \A k \in {CLARITY, RELEVANCE, STRUCTURE} :
           k \in DOMAIN parsed_chunk.o /\ parsed_chunk.o[k].t = "num"
    /\ \A k \in {IMPROVEMENTS, REPHRASINGS} :
           k \in DOMAIN parsed_chunk.o /\ parsed_chunk.o[k].t = "arr"

\* xs[:n]
Prefix(xs, n) == SubSeq(xs, 1, Min(n, Len(xs)))

Numbers(values) == \A i \in 1..Len(values) : IsNumber(values[i])

\* int(sum(xs)/len(xs)) if xs else 0
ScoreOf(values) == IF values # <<>> THEN int_mean(values) ELSE 0

QualityObject(clarity, relevance, structure, improvements, rephrasings) ==
    <<"{">> \o JString(CLARITY) \o <<":", SP>> \o clarity \o <<",", SP>>
        \o JString(RELEVANCE) \o <<":", SP>> \o relevance \o <<",", SP>>
        \o JString(STRUCTURE) \o <<":", SP>> \o structure \o <<",", SP>>
        \o JString(IMPROVEMENTS) \o <<":", SP>> \o improvements \o <<",", SP>>
        \o JString(REPHRASINGS) \o <<":", SP>> \o rephrasings \o <<"}">>

QualityReplies ==
    { QualityObject(<<"8">>, <<"7">>, <<"9">>, <<"[">> \o JString(<<"more">>) \o <<"]">>,
                    <<"[">> \o JString(<<"better">>) \o <<"]">>),
      QualityObject(<<"6">>, <<"-", "3">>, <<"1", "0">>, <<"[", "]">>, <<"[", "]">>),
      QualityObject(JString(<<"8">>), <<"7">>, <<"9">>, <<"[", "]">>, <<"[", "]">>),
      QualityObject(<<"8">>, <<"7">>, <<"9">>, <<"5">>, <<"[", "]">>),
      <<"{">> \o JString(CLARITY) \o <<":", SP, "4", "}">>,
      <<"Sorry", SP, "no", SP, "JSON">>,
      <<"5">>,
      <<"[", "1", "]">> }

QualityGroqOutcomes   == {Raises} \cup {Answers(t) : t \in QualityReplies}
QualityGeminiOutcomes ==
    { Raises, Answers(<<"5">>),
      Answers(QualityObject(<<"6">>, <<"-", "3">>, <<"1", "0">>, <<"[", "]">>, <<"[", "]">>)) }

AnalyzeCvQualityStart(body_cv) ==
    /\ pc = "idle"
    /\ route' = "analyze_cv_quality"
    /\ LET cv == clean_text(CvRaw(body_cv))
       IN  IF cv = <<>>
           THEN /\ resp' = api_response(None, TRUE, 400)
                /\ pc' = "done"
                /\ ResetLocals
                /\ UNCHANGED MEMORY
           ELSE /\ cv_clean' = cv
                /\ MEMORY' = [MEMORY EXCEPT !.cv_text = SomeText(cv)]
                /\ cv_chunks' = chunk_text(cv, ChunkSizeScaled)
                /\ job_clean' = <<>>
                /\ job_chunks' = <<>>
                /\ chunk_feedbacks' = <<>>
                /\ chunk_scores' = <<>>
                /\ quality' = EmptyQuality
                /\ sent' = <<>>
                /\ chunk_ok' = <<>>
                /\ trace' = <<>>
                /\ memory_before' = MEMORY.cv_text
                /\ resp' = NoResponse
                /\ pc' = "chunks"

\* One iteration of the loop over chunks.
AnalyzeCvQualityChunk(groq_out, gemini_out) ==
    /\ route = "analyze_cv_quality"
    /\ pc = "chunks"
    /\ Len(sent) < Len(cv_chunks)
    /\ \E parsed_chunk \in {safe_json(gemini_text(groq_out, gemini_out).text)} :
         LET chunk == cv_chunks[Len(sent) + 1]
             got   == QualityParsed(parsed_chunk, quality)
         IN
           /\ sent' = Append(sent, <<chunk, <<>>>>)
           /\ chunk_ok' = Append(chunk_ok, WellFormedQuality(parsed_chunk))
           /\ quality' = got.lists
           /\ IF got.exc
              THEN resp' = Unhandled /\ pc' = "done"
              ELSE UNCHANGED <<resp, pc>>
    /\ UNCHANGED <<MEMORY, route, cv_clean, job_clean, cv_chunks, job_chunks,
                   chunk_feedbacks, chunk_scores, trace, memory_before>>

\* After the loop: the three means and the response.
AnalyzeCvQualityFinish ==
    /\ route = "analyze_cv_quality"
    /\ pc = "chunks"
    /\ Len(sent) = Len(cv_chunks)
    /\ resp' = IF Numbers(quality.clarity) /\ Numbers(quality.relevance)
                    /\ Numbers(quality.structure)
               THEN api_response(
                        JObj((CLARITY :> JNum(ScoreOf(quality.clarity)))
                             @@ (RELEVANCE :> JNum(ScoreOf(quality.relevance)))
                             @@ (STRUCTURE :> JNum(ScoreOf(quality.structure)))
                             @@ (IMPROVEMENTS :>
                                   JArr(Prefix(quality.improvements, MAX_SUGGESTIONS)))
                             @@ (REPHRASINGS :>
                                   JArr(Prefix(quality.rephrasings, MAX_SUGGESTIONS)))),
                        FALSE, 200)
               ELSE Unhandled
    /\ pc' = "done"
    /\ UNCHANGED <<MEMORY, route, local_vars>>

----------------------------------------------------------------------------
(* evaluate_answer and generate_job_queries: one prompt, one JSON answer. *)

NOTA     == Key("nota_finala")
FEEDBACK == Key("feedback")
QUERIES  == Key("queries")
STATUS   == Key("status")
NUM_QUERIES == 7

NoClearMatch == JStr(<<"no_clear_match">>)

\* evaluate_answer's default evaluation; the feedback text is abbreviated.
DefaultEvaluation ==
    JObj((NOTA :> JNum(DEFAULT_SCORE))
         @@ (FEEDBACK :> JStr(<<"Raspunsul", SP, "este", SP, "solid">>)))

\* generate_job_queries' payload when no queries were obtained; the message
\* is abbreviated.
NoClearMatchPayload ==
    JObj((STATUS :> NoClearMatch)
         @@ (Key("message") :> JStr(<<"Experienta", SP, "prea", SP, "nisata">>)))

CurrentEvaluation(parsed) == JObj(Key("current_evaluation") :> parsed)

SevenQueries ==
    <<"{">> \o JString(QUERIES) \o <<":", SP, "[">>
        \o JString(<<"q1">>) \o <<",">> \o JString(<<"q2">>) \o <<",">>
        \o JString(<<"q3">>) \o <<",">> \o JString(<<"q4">>) \o <<",">>
        \o JString(<<"q5">>) \o <<",">> \o JString(<<"q6">>) \o <<",">>
        \o JString(<<"q7">>) \o <<"]", "}">>

EvalReplies ==
    { <<"{">> \o JString(NOTA) \o <<":", SP, "8", ",", SP>> \o JString(FEEDBACK)
          \o <<":", SP>> \o JString(<<"ok">>) \o <<"}">>,
      <<"{">> \o JString(NOTA) \o <<":", SP, "9", "}">>,
      <<"{">> \o JString(FEEDBACK) \o <<":", SP>> \o JString(<<"ok">>) \o <<"}">>,
      <<"Nota", SP, "8", SP, "din", SP, "1", "0">>,
      <<"{">> \o JString(NOTA) \o <<":", SP, "8">>,
      <<"5">>,
      <<NL, SP>> }

EvalOutcomes == {Raises} \cup {Answers(t) : t \in EvalReplies}
EvalGeminiOutcomes ==
    { Raises, Answers(<<"{">> \o JString(NOTA) \o <<":", SP, "6", "}">>),
      Answers(<<"Nota", SP, "6">>) }

QueryReplies ==
    { SevenQueries,
      <<"{">> \o JString(STATUS) \o <<":", SP>> \o JString(<<"no_clear_match">>) \o <<"}">>,
      <<"{">> \o JString(QUERIES) \o <<":", SP, "[">> \o JString(<<"q1">>) \o <<"]", "}">>,
      <<"Senior", SP, "Engineer", ",", SP, "Tech", SP, "Lead">>,
      <<"5">>,
      <<SP>> }

QueryOutcomes == {Raises} \cup {Answers(t) : t \in QueryReplies}
QueryRetryOutcomes ==
    {Raises, Answers(SevenQueries), Answers(<<"Senior", SP, "Engineer">>)}

BodyStrings == {<<SP>>, <<"why", SP, "?">>}

EvaluateAnswer(question, answer, groq_out, gemini_out) ==
    /\ pc = "idle"
    /\ route' = "evaluate_answer"
    /\ pc' = "done"
    /\ ResetChunkLocals
    /\ cv_clean' = <<>>
    /\ IF Strip(question) = <<>> \/ Strip(answer) = <<>>
       THEN /\ resp' = api_response(None, TRUE, 400)
            /\ trace' = <<>>
       ELSE \E got \in {gemini_text(groq_out, gemini_out)} :
            \E parsed \in {safe_json(got.text)} :
                /\ trace' = got.calls
                /\ resp' =
                     IF Falsy(parsed)
                     THEN api_response(CurrentEvaluation(DefaultEvaluation), FALSE, 200)
                     ELSE IF parsed.t \notin {"obj", "arr", "str"} THEN Unhandled
                     ELSE IF ~Contains(parsed, NOTA)
                     THEN api_response(CurrentEvaluation(DefaultEvaluation), FALSE, 200)
                     ELSE api_response(CurrentEvaluation(parsed), FALSE, 200)
    /\ UNCHANGED MEMORY

GenerateJobQueries(body_cv, groq_out, groq_again, gemini_out) ==
    /\ pc = "idle"
    /\ route' = "generate_job_queries"
    /\ pc' = "done"
    /\ ResetChunkLocals
    /\ LET cv == clean_text(CvRaw(body_cv))
       IN  IF cv = <<>>
           THEN /\ resp' = api_response(None, TRUE, 400)
                /\ cv_clean' = <<>>
                /\ trace' = <<>>
                /\ UNCHANGED MEMORY
           ELSE LET first  == IF USE_GROQ /\ groq_client THEN groq_text(groq_out)
                              ELSE Returned(<<>>, <<>>)
                    second == IF first.text = <<>> /\ gemini_client
                              THEN gemini_text(groq_again, gemini_out)
                              ELSE Returned(first.text, <<>>)
                IN  \E parsed \in {safe_json(second.text)} :
                    /\ cv_clean' = cv
                    /\ MEMORY' = [MEMORY EXCEPT !.cv_text = SomeText(cv)]
                    /\ trace' = first.calls \o second.calls
                    /\ resp' =
                         IF Falsy(parsed) THEN api_response(NoClearMatchPayload, FALSE, 200)
                         ELSE IF parsed.t # "obj" THEN api_response(None, TRUE, 503)
                         ELSE IF Get(parsed, STATUS, None) = NoClearMatch
                         THEN api_response(parsed, FALSE, 200)
                         ELSE IF \/ QUERIES \notin DOMAIN parsed.o
                                 \/ parsed.o[QUERIES].t # "arr"
                                 \/ Len(parsed.o[QUERIES].a) # NUM_QUERIES
                         THEN api_response(NoClearMatchPayload, FALSE, 200)
                         ELSE api_response(JObj(QUERIES :> parsed.o[QUERIES]), FALSE, 200)

----------------------------------------------------------------------------
(* reformulate_cv_for_job_boards: the same sequencing of groq_text and     *)
(* gemini_text as generate_job_queries.                                    *)

REQUIRED_KEYS ==
    { Key("normalized_titles"), Key("cv_summary_for_job_boards"),
      Key("core_skills_keywords"), Key("notes_for_candidate") }

Reformulated ==
    <<"{">> \o JString(Key("normalized_titles")) \o <<":", SP, "[", "]", ",", SP>>
        \o JString(Key("cv_summary_for_job_boards")) \o <<":", SP>>
        \o JString(<<"ok">>) \o <<",", SP>>
        \o JString(Key("core_skills_keywords")) \o <<":", SP, "[", "]", ",", SP>>
        \o JString(Key("notes_for_candidate")) \o <<":", SP>>
        \o JString(<<"ok">>) \o <<"}">>

ReformulateOutcomes ==
    { Raises, Answers(Reformulated), Answers(<<"Senior", SP, "Engineer">>),
      Answers(<<"5">>) }

ReformulateRetryOutcomes == {Raises, Answers(Reformulated)}

ReformulateCv(body_cv, groq_out, groq_again, gemini_out) ==
    /\ pc = "idle"
    /\ route' = "reformulate_cv_for_job_boards"
    /\ pc' = "done"
    /\ ResetChunkLocals
    /\ LET cv == clean_text(CvRaw(body_cv))
       IN  IF cv = <<>>
           THEN /\ resp' = api_response(None, TRUE, 400)
                /\ cv_clean' = <<>>
                /\ trace' = <<>>
                /\ UNCHANGED MEMORY
           ELSE LET first  == IF USE_GROQ /\ groq_client THEN groq_text(groq_out)
                              ELSE Returned(<<>>, <<>>)
                    second == IF first.text = <<>> /\ gemini_client
                              THEN gemini_text(groq_again, gemini_out)
                              ELSE Returned(first.text, <<>>)
                IN  \E parsed \in {safe_json(second.text)} :
                    /\ cv_clean' = cv
                    /\ MEMORY' = [MEMORY EXCEPT !.cv_text = SomeText(cv)]
                    /\ trace' = first.calls \o second.calls
                    /\ resp' =
                         IF Falsy(parsed) THEN api_response(None, TRUE, 503)
                         ELSE IF parsed.t \notin {"obj", "arr", "str"}
                         THEN api_response(None, TRUE, 503)
                         ELSE IF \A k \in REQUIRED_KEYS : Contains(parsed, k)
                         THEN api_response(parsed, FALSE, 200)
                         ELSE api_response(None, TRUE, 503)

----------------------------------------------------------------------------
(* generate_questions and clear_memory *)

NUM_QUESTIONS == 5

QUESTIONS == Key("questions")

\* The five default questions, abbreviated.
DefaultQuestions ==
    JObj(QUESTIONS :> JArr([i \in 1..NUM_QUESTIONS |-> JStr(<<"Povestiti">>)]))

FiveQuestions ==
    <<"{">> \o JString(QUESTIONS) \o <<":", SP, "[">>
        \o JString(<<"q1">>) \o <<",">> \o JString(<<"q2">>) \o <<",">>
        \o JString(<<"q3">>) \o <<",">> \o JString(<<"q4">>) \o <<",">>
        \o JString(<<"q5">>) \o <<"]", "}">>

QuestionOutcomes ==
    { Raises, Answers(FiveQuestions), Answers(<<"Senior", SP, "Engineer">>),
      Answers(<<"5">>),
      Answers(<<"{">> \o JString(QUESTIONS) \o <<":", SP, "5", "}">>) }

\* len(v), for the values that have one.
PyLen(v) ==
    CASE v.t = "arr" -> Len(v.a)
      [] v.t = "str" -> Len(v.s)
      [] v.t = "obj" -> Cardinality(DOMAIN v.o)

GenerateQuestions(body_cv, body_job, groq_out, gemini_out) ==
    /\ pc = "idle"
    /\ route' = "generate_questions"
    /\ pc' = "done"
    /\ ResetChunkLocals
    /\ LET cv == clean_text(CvRaw(body_cv))
       IN  IF cv = <<>> \/ Strip(body_job) = <<>>
           THEN /\ resp' = api_response(None, TRUE, 400)
                /\ cv_clean' = <<>>
                /\ trace' = <<>>
                /\ UNCHANGED MEMORY
           ELSE \E got \in {gemini_text(groq_out, gemini_out)} :
                \E parsed \in {safe_json(got.text)} :
                    /\ cv_clean' = cv
                    /\ MEMORY' = [MEMORY EXCEPT !.cv_text = SomeText(cv)]
                    /\ trace' = got.calls
                    /\ resp' =
                         IF Falsy(parsed) THEN api_response(DefaultQuestions, FALSE, 200)
                         ELSE IF parsed.t \notin {"obj", "arr", "str"} THEN Unhandled
                         ELSE IF ~Contains(parsed, QUESTIONS)
                         THEN api_response(DefaultQuestions, FALSE, 200)
                         ELSE IF parsed.t # "obj" THEN Unhandled
                         ELSE IF parsed.o[QUESTIONS].t \notin {"arr", "str", "obj"} THEN Unhandled
                         ELSE IF PyLen(parsed.o[QUESTIONS]) # NUM_QUESTIONS
                         THEN api_response(DefaultQuestions, FALSE, 200)
                         ELSE api_response(parsed, FALSE, 200)

\* POST /clear-memory; the jsonify payload is not modelled.
ClearMemory ==
    /\ pc = "idle"
    /\ route' = "clear_memory"
    /\ pc' = "done"
    /\ ResetLocals
    /\ MEMORY' = [MEMORY EXCEPT !.cv_text = NoText]
    /\ resp' = api_response(None, FALSE, 200)

----------------------------------------------------------------------------
(* Requests handled concurrently, one per thread of the server, over the   *)
(* shared MEMORY.  A handler takes one step per access to MEMORY.          *)

NumThreads == 2

Threads == 1..NumThreads

\* th_after_clear[t] and cleared are history variables.  cleared: a
\* clear_memory request has completed and no request whose own body carried
\* a CV has stored it since.  th_after_clear[t]: for a check_cv_memory
\* request, it started while cleared held; for a clear_memory request, no
\* body-supplied CV was stored since its assignment.
ThreadsIdle ==
    /\ th_pc = [t \in Threads |-> "idle"]
    /\ th_route = [t \in Threads |-> "idle"]
    /\ th_own = [t \in Threads |-> FALSE]
    /\ th_cv = [t \in Threads |-> <<>>]
    /\ th_resp = [t \in Threads |-> NoResponse]
    /\ th_after_clear = [t \in Threads |-> FALSE]
    /\ cleared = FALSE

MIN_CV_LEN == 10

ThreadCvs ==
    {NoText, SomeText(<<"a">>), SomeText(Alternating(MIN_CV_LEN + 1, "a", "b"))}

\* The default profile, abbreviated.
DefaultLinkedIn ==
    JObj((Key("linkedin_headlines") :> JArr(<<JStr(<<"Senior">>)>>))
         @@ (Key("linkedin_about") :> JStr(<<"Profil">>)))

LinkedInOutcomes ==
    { Raises,
      Answers(<<"{">> \o JString(Key("linkedin_about")) \o <<":", SP>> \o JString(<<"About">>) \o <<"}">>) }

\* optimize_linkedin_profile, line 616: cv_raw is read from the body or
\* from MEMORY.
OptimizeRead(t, body_cv) ==
    /\ th_pc[t] = "idle"
    /\ th_route' = [th_route EXCEPT ![t] = "optimize_linkedin_profile"]
    /\ th_pc' = [th_pc EXCEPT ![t] = "read"]
    /\ th_own' = [th_own EXCEPT ![t] = ~body_cv.none /\ body_cv.text # <<>>]
    /\ th_cv' = [th_cv EXCEPT ![t] = CvRaw(body_cv)]
    /\ UNCHANGED <<MEMORY, th_resp, th_after_clear, cleared>>

\* optimize_linkedin_profile, lines 617-621: the cleaned text is stored.
OptimizeWrite(t) ==
    /\ th_route[t] = "optimize_linkedin_profile" /\ th_pc[t] = "read"
    /\ LET cv == clean_text(th_cv[t])
       IN  IF cv = <<>>
           THEN /\ th_resp' = [th_resp EXCEPT ![t] = api_response(None, TRUE, 400)]
                /\ th_pc' = [th_pc EXCEPT ![t] = "done"]
                /\ UNCHANGED <<MEMORY, th_cv, th_after_clear, cleared>>
           ELSE /\ MEMORY' = [MEMORY EXCEPT !.cv_text = SomeText(cv)]
                /\ th_cv' = [th_cv EXCEPT ![t] = cv]
                /\ th_pc' = [th_pc EXCEPT ![t] = "written"]
                /\ cleared' = IF th_own[t] THEN FALSE ELSE cleared
                /\ th_after_clear' = IF th_own[t] THEN [u \in Threads |-> FALSE]
                                     ELSE th_after_clear
                /\ UNCHANGED th_resp
    /\ UNCHANGED <<th_route, th_own>>

\* optimize_linkedin_profile, lines 623-645.
OptimizeFinish(t, groq_out, gemini_out) ==
    /\ th_route[t] = "optimize_linkedin_profile" /\ th_pc[t] = "written"
    /\ \E raw \in {gemini_text(groq_out, gemini_out)} :
       \E parsed \in {safe_json(raw.text)} :
           th_resp' = [th_resp EXCEPT ![t] =
                          api_response(IF Falsy(parsed) THEN DefaultLinkedIn ELSE parsed,
                                       FALSE, 200)]
    /\ th_pc' = [th_pc EXCEPT ![t] = "done"]
    /\ UNCHANGED <<MEMORY, th_route, th_own, th_cv, th_after_clear, cleared>>

\* clear_memory, line 194, with the response that follows it.
ThreadClear(t) ==
    /\ th_pc[t] = "idle"
    /\ th_route' = [th_route EXCEPT ![t] = "clear_memory"]
    /\ th_pc' = [th_pc EXCEPT ![t] = "done"]
    /\ MEMORY' = [MEMORY EXCEPT !.cv_text = NoText]
    /\ th_resp' = [th_resp EXCEPT ![t] = api_response(None, FALSE, 200)]
    /\ th_after_clear' = [th_after_clear EXCEPT ![t] = TRUE]
    /\ UNCHANGED <<th_own, th_cv, cleared>>

\* check_cv_memory, line 188: MEMORY.get("cv_text") is tested.
CheckFirst(t) ==
    /\ th_pc[t] = "idle"
    /\ th_route' = [th_route EXCEPT ![t] = "check_cv_memory"]
    /\ th_after_clear' = [th_after_clear EXCEPT ![t] = cleared]
    /\ IF MEMORY.cv_text.none \/ MEMORY.cv_text.text = <<>>
       THEN /\ th_resp' = [th_resp EXCEPT ![t] = api_response(None, TRUE, 404)]
            /\ th_pc' = [th_pc EXCEPT ![t] = "done"]
       ELSE /\ th_pc' = [th_pc EXCEPT ![t] = "tested"]
            /\ UNCHANGED th_resp
    /\ UNCHANGED <<MEMORY, th_own, th_cv, cleared>>

\* check_cv_memory, line 188: MEMORY["cv_text"] is read again for its
\* length; None has no strip().
CheckSecond(t) ==
    /\ th_route[t] = "check_cv_memory" /\ th_pc[t] = "tested"
    /\ th_resp' = [th_resp EXCEPT ![t] =
                      IF MEMORY.cv_text.none THEN Unhandled
                      ELSE IF Len(Strip(MEMORY.cv_text.text)) > MIN_CV_LEN
                      THEN api_response(JObj(Key("has_cv") :> JBool(TRUE)), FALSE, 200)
                      ELSE api_response(None, TRUE, 404)]
    /\ th_pc' = [th_pc EXCEPT ![t] = "done"]
    /\ UNCHANGED <<MEMORY, th_route, th_own, th_cv, th_after_clear, cleared>>

\* The handler of thread t has returned.
ThreadRespond(t) ==
    /\ th_pc[t] = "done"
    /\ cleared' = IF th_route[t] = "clear_memory" /\ th_after_clear[t] THEN TRUE
                  ELSE cleared
    /\ th_pc' = [th_pc EXCEPT ![t] = "idle"]
    /\ th_route' = [th_route EXCEPT ![t] = "idle"]
    /\ th_own' = [th_own EXCEPT ![t] = FALSE]
    /\ th_cv' = [th_cv EXCEPT ![t] = <<>>]
    /\ th_resp' = [th_resp EXCEPT ![t] = NoResponse]
    /\ th_after_clear' = [th_after_clear EXCEPT ![t] = FALSE]
    /\ UNCHANGED MEMORY

----------------------------------------------------------------------------
(* The pure functions, applied to bounded inputs. *)

MaxTextLen   == 5    \* plain texts have at most this many characters
MaxChunkSize == 3    \* chunk_size ranges over 1..MaxChunkSize
MaxJsonLen   == 3    \* brace-free texts have at most this many lexemes

Seqs(S, n) == UNION {[1..k -> S] : k \in 0..n}

\* Texts of letters, spaces, other whitespace and control characters.
PlainTexts == Seqs({"a", SP, NL, SOH}, MaxTextLen)

\* The two texts of the chunking scenario, with the chunk_size the routes
\* pass.
ScenarioTexts == {[i \in 1..n |-> "a"] : n \in {9000, 8500}}
ScenarioSize  == 3000

\* Texts over JSON's lexemes that hold no '{'.
BraceFreeTexts ==
    Seqs({QT, "1", "0", "-", "true", "null", "[", "]", ",", "}", SP, "a"}, MaxJsonLen)

\* JSON objects as a provider writes them: one or two members, with the
\* whitespace of a pretty-printer or none.

JValues ==
    { <<"8", "0">>, <<"true">>, <<"null">>, <<"[", "]">>, <<"{", "}">>,
      <<"[", "1", ",", SP, "2", "]">>,
      JString(<<"ok">>), JString(<<"a", SP, "b">>), JString(<<"a", SP, SP, "b">>),
      JString(<<"a", ":", SP, "{", "b", "}">>), JString(<<>>) }

JGaps == {<<>>, <<SP>>, <<NL, SP, SP>>}

JObjects ==
    { <<"{">> \o g \o JString(<<"score">>) \o <<":">> \o g \o v \o g \o <<"}">> :
          g \in JGaps, v \in JValues }
    \cup
    { <<"{">> \o g \o JString(<<"score">>) \o <<":", SP>> \o v \o <<",">> \o g
            \o JString(<<"note">>) \o <<":", SP>> \o w \o g \o <<"}">> :
          g \in JGaps, v \in {<<"8", "0">>}, w \in JValues }

\* What a provider writes around the object: nothing, whitespace, prose,
\* a markdown fence.
Prefixes ==
    { <<>>, <<SP, NL>>, <<"Here", SP, "is", SP, "the", SP, "result", ":", NL>>,
      <<FENCE, "json", NL>>,
      <<"Here", SP, "is", SP, "the", SP, "result", ":", NL, FENCE, "json", NL>> }

Suffixes ==
    { <<>>, <<NL>>, <<NL, "Thanks", "!">>, <<NL, FENCE>>, <<NL, FENCE, NL, "Thanks", "!">> }

ObjectTexts == {<<p \o o \o q, o>> : p \in Prefixes, o \in JObjects, q \in Suffixes}

\* Whether len() of the text is its number of lexemes.
OneCharLexemes(text) == {i \in 1..Len(text) : text[i] \notin {"a", SP, NL, TAB, SOH}} = {}

PureIdle ==
    /\ fn_pc = "idle"
    /\ fn_text = <<>>
    /\ fn_size = 1
    /\ fn_obj = <<>>
    /\ fn_out = <<>>
    /\ fn_json = None
    /\ fn_chunks = <<>>

PureInit ==
    /\ ConfigNone
    /\ RouteIdle
    /\ ThreadsIdle
    /\ OrchIdle
    /\ fn_pc = "input"
    /\ \/ fn_text \in PlainTexts /\ fn_size \in 1..MaxChunkSize /\ fn_obj = <<>>
       \/ fn_text \in ScenarioTexts /\ fn_size = ScenarioSize /\ fn_obj = <<>>
       \/ fn_text \in BraceFreeTexts /\ fn_size = 1 /\ fn_obj = <<>>
       \/ \E t \in ObjectTexts : fn_text = t[1] /\ fn_obj = t[2] /\ fn_size = 1
    /\ fn_out = <<>>
    /\ fn_json = None
    /\ fn_chunks = <<>>

CleanText ==
    /\ fn_pc = "input"
    /\ fn_out' = clean_text(fn_text)
    /\ fn_pc' = "cleaned"
    /\ UNCHANGED <<fn_text, fn_size, fn_obj, fn_json, fn_chunks>>

SafeJson ==
    /\ fn_pc = "input"
    /\ fn_json' = safe_json(fn_text)
    /\ fn_pc' = "parsed"
    /\ UNCHANGED <<fn_text, fn_size, fn_obj, fn_out, fn_chunks>>

ChunkText ==
    /\ fn_pc = "input"
    /\ OneCharLexemes(fn_text)
    /\ fn_size > 0
    /\ fn_chunks' = chunk_text(fn_text, fn_size)
    /\ fn_pc' = "chunked"
    /\ UNCHANGED <<fn_text, fn_size, fn_obj, fn_out, fn_json>>

PureNext ==
    \/ CleanText /\ UNCHANGED <<config_vars, orch_vars, route_vars, thread_vars>>
    \/ SafeJson /\ UNCHANGED <<config_vars, orch_vars, route_vars, thread_vars>>
    \/ ChunkText /\ UNCHANGED <<config_vars, orch_vars, route_vars, thread_vars>>

SpecPure == PureInit /\ [][PureNext]_vars

OrchStart ==
    /\ OrchInit
    /\ RouteIdle
    /\ ThreadsIdle
    /\ PureIdle

OrchNext ==
    \/ CallGeminiText /\ UNCHANGED <<fn_vars, config_vars, route_vars, thread_vars>>
    \/ CallGroqText /\ UNCHANGED <<fn_vars, config_vars, route_vars, thread_vars>>

SpecOrch == OrchStart /\ [][OrchNext]_vars

----------------------------------------------------------------------------
(* The routes, one request after another. *)

Init ==
    /\ ConfigInit
    /\ RouteIdle
    /\ ThreadsIdle
    /\ OrchIdle
    /\ PureIdle

\* The handler has returned: the response is sent and the locals are gone.
Respond ==
    /\ pc = "done"
    /\ pc' = "idle"
    /\ route' = "idle"
    /\ resp' = NoResponse
    /\ ResetLocals
    /\ UNCHANGED MEMORY

Next ==
    \/ /\ \E body_cv \in BodyCvs, body_job \in BodyJobs :
              AnalyzeCvStart(body_cv, body_job)
       /\ UNCHANGED <<fn_vars, config_vars, orch_vars, thread_vars>>
    \/ /\ \E g \in CvGroqOutcomes, m \in CvGeminiOutcomes : AnalyzeCvChunk(g, m)
       /\ UNCHANGED <<fn_vars, config_vars, orch_vars, thread_vars>>
    \/ /\ \E g \in RewriteOutcomes, m \in RewriteOutcomes : AnalyzeCvFinish(g, m)
       /\ UNCHANGED <<fn_vars, config_vars, orch_vars, thread_vars>>
    \/ /\ \E body_cv \in BodyCvs : AnalyzeCvQualityStart(body_cv)
       /\ UNCHANGED <<fn_vars, config_vars, orch_vars, thread_vars>>
    \/ /\ \E g \in QualityGroqOutcomes, m \in QualityGeminiOutcomes :
              AnalyzeCvQualityChunk(g, m)
       /\ UNCHANGED <<fn_vars, config_vars, orch_vars, thread_vars>>
    \/ /\ AnalyzeCvQualityFinish
       /\ UNCHANGED <<fn_vars, config_vars, orch_vars, thread_vars>>
    \/ /\ \E question \in BodyStrings, answer \in BodyStrings :
              \E g \in EvalOutcomes, m \in EvalGeminiOutcomes :
                  EvaluateAnswer(question, answer, g, m)
       /\ UNCHANGED <<fn_vars, config_vars, orch_vars, thread_vars>>
    \/ /\ \E body_cv \in BodyCvs :
              \E g \in QueryOutcomes, g2 \in QueryRetryOutcomes, m \in QueryRetryOutcomes :
                  GenerateJobQueries(body_cv, g, g2, m)
       /\ UNCHANGED <<fn_vars, config_vars, orch_vars, thread_vars>>
    \/ /\ \E body_cv \in BodyCvs :
              \E g \in ReformulateOutcomes, g2 \in ReformulateRetryOutcomes,
                 m \in ReformulateRetryOutcomes :
                  ReformulateCv(body_cv, g, g2, m)
       /\ UNCHANGED <<fn_vars, config_vars, orch_vars, thread_vars>>
    \/ /\ \E body_cv \in BodyCvs, body_job \in BodyStrings :
              \E g \in QuestionOutcomes, m \in {Raises, Answers(FiveQuestions)} :
                  GenerateQuestions(body_cv, body_job, g, m)
       /\ UNCHANGED <<fn_vars, config_vars, orch_vars, thread_vars>>
    \/ /\ ClearMemory
       /\ UNCHANGED <<fn_vars, config_vars, orch_vars, thread_vars>>
    \/ /\ Respond
       /\ UNCHANGED <<fn_vars, config_vars, orch_vars, thread_vars>>

Spec == Init /\ [][Next]_vars

----------------------------------------------------------------------------
(* The specification of concurrent requests: each thread handles one        *)
(* request at a time and the threads' accesses to MEMORY interleave.        *)

single_vars == <<route, pc, local_vars, resp>>

ConcNext ==
    \/ /\ \E t \in Threads, body_cv \in ThreadCvs : OptimizeRead(t, body_cv)
       /\ UNCHANGED <<fn_vars, config_vars, orch_vars, single_vars>>
    \/ /\ \E t \in Threads : OptimizeWrite(t)
       /\ UNCHANGED <<fn_vars, config_vars, orch_vars, single_vars>>
    \/ /\ \E t \in Threads, g \in LinkedInOutcomes, m \in LinkedInOutcomes :
              OptimizeFinish(t, g, m)
       /\ UNCHANGED <<fn_vars, config_vars, orch_vars, single_vars>>
    \/ /\ \E t \in Threads : ThreadClear(t)
       /\ UNCHANGED <<fn_vars, config_vars, orch_vars, single_vars>>
    \/ /\ \E t \in Threads : CheckFirst(t)
       /\ UNCHANGED <<fn_vars, config_vars, orch_vars, single_vars>>
    \/ /\ \E t \in Threads : CheckSecond(t)
       /\ UNCHANGED <<fn_vars, config_vars, orch_vars, single_vars>>
    \/ /\ \E t \in Threads : ThreadRespond(t)
       /\ UNCHANGED <<fn_vars, config_vars, orch_vars, single_vars>>

SpecConc == Init /\ [][ConcNext]_vars

----------------------------------------------------------------------------
(* Claims about gemini_text, under SpecOrch. *)

BothConfigured == USE_GROQ /\ groq_client /\ gemini_client

GeminiTextReturned == orch_pc = "returned" /\ orch_fn = "gemini_text"

\* C1: with both providers configured, when Groq raises and Gemini answers
\* with a text that is not empty after trimming, gemini_text returns
\* Gemini's text trimmed and raises nothing.
C1_FallbackOnError ==
    ( /\ GeminiTextReturned
      /\ BothConfigured
      /\ orch_groq_out.err
      /\ ~orch_gemini_out.err
      /\ Strip(orch_gemini_out.text) # <<>> )
    => /\ orch_res.text = Strip(orch_gemini_out.text)
       /\ ~orch_res.raised

\* Groq raised, Gemini answered " a\n", and gemini_text returned "a".
C1_Witness ==
    /\ GeminiTextReturned
    /\ BothConfigured
    /\ orch_groq_out.err
    /\ orch_gemini_out = Answers(<<SP, "a", NL>>)
    /\ orch_res.text = <<"a">>
    /\ orch_res.calls = <<Call("groq", orch_groq_out), Call("gemini", orch_gemini_out)>>

\* C2: with both providers configured, when Groq answers with a text that is
\* empty after trimming and Gemini answers with one that is not, gemini_text
\* goes on to Gemini and returns its text.
C2_FallbackOnEmpty ==
    ( /\ GeminiTextReturned
      /\ BothConfigured
      /\ ~orch_groq_out.err
      /\ Strip(orch_groq_out.text) = <<>>
      /\ ~orch_gemini_out.err
      /\ Strip(orch_gemini_out.text) # <<>> )
    => /\ orch_res.text = Strip(orch_gemini_out.text)
       /\ \E i \in 1..Len(orch_res.calls) : orch_res.calls[i].provider = "gemini"

\* Every provider the called function has raises, or it has none.
EveryProviderFails ==
    IF orch_fn = "gemini_text"
    THEN /\ (USE_GROQ /\ groq_client) => orch_groq_out.err
         /\ gemini_client => orch_gemini_out.err
    ELSE groq_client => orch_groq_out.err

\* C12: when every configured provider raises, or none is configured,
\* gemini_text and groq_text return "" and raise nothing.
C12_AllProvidersFail ==
    (orch_pc = "returned" /\ EveryProviderFails)
        => orch_res.text = <<>> /\ ~orch_res.raised

\* gemini_text called Groq, then Gemini, both raised, and it returned "".
C12_Witness ==
    /\ GeminiTextReturned
    /\ BothConfigured
    /\ orch_groq_out.err
    /\ orch_gemini_out.err
    /\ Len(orch_res.calls) = 2
    /\ orch_res.text = <<>>

----------------------------------------------------------------------------
(* Claims about the pure functions, under SpecPure. *)

RECURSIVE Concat(_)
Concat(seqs) == IF seqs = <<>> THEN <<>> ELSE Head(seqs) \o Concat(Tail(seqs))

Lengths(seqs) == [i \in 1..Len(seqs) |-> Len(seqs[i])]

\* C5: the chunks of chunk_text(t, max_len), max_len > 0, concatenated in
\* order are t; every chunk has at most max_len characters and every chunk
\* but the last has exactly max_len; 9000 characters at 3000 give chunks of
\* 3000, 3000, 3000 and 8500 give 3000, 3000, 2500.
C5_ChunkPartition ==
    fn_pc = "chunked" =>
        /\ Concat(fn_chunks) = fn_text
        /\ \A i \in 1..Len(fn_chunks) : Len(fn_chunks[i]) <= fn_size
        /\ \A i \in 1..(Len(fn_chunks) - 1) : Len(fn_chunks[i]) = fn_size
        /\ (Len(fn_text) = 9000 /\ fn_size = 3000)
               => Lengths(fn_chunks) = <<3000, 3000, 3000>>
        /\ (Len(fn_text) = 8500 /\ fn_size = 3000)
               => Lengths(fn_chunks) = <<3000, 3000, 2500>>

\* A text was cut into three chunks, the last one shorter than the others.
C5_Witness ==
    /\ fn_pc = "chunked"
    /\ Len(fn_chunks) = 3
    /\ Len(fn_chunks[3]) < fn_size
    /\ Len(fn_chunks[1]) = fn_size

\* C6: safe_json of a text that holds no '{' is None, also when the text is
\* a JSON number, string, array, true, false or null.
C6_NoBraceIsNone ==
    (fn_pc = "parsed" /\ Indices(fn_text, "{") = {}) => fn_json = None

\* C7: clean_text(clean_text(t)) = clean_text(t).
C7_CleanTextIdempotent ==
    fn_pc = "cleaned" => clean_text(fn_out) = fn_out

\* C9: safe_json of a text that is one JSON object, possibly inside a
\* markdown fence and between prose, is the value json.loads gives for that
\* object alone.
C9_EmbeddedObjectRecovered ==
    (fn_pc = "parsed" /\ fn_obj # <<>>) => fn_json = json_loads(fn_obj).v

----------------------------------------------------------------------------
(* Claims about the routes, under Spec. *)

Done(name) == pc = "done" /\ route = name

\* The provider answered with a text, not empty after trimming, that
\* safe_json cannot parse.
Unparseable(call) ==
    /\ ~call.outcome.err
    /\ Strip(call.outcome.text) # <<>>
    /\ safe_json(Strip(call.outcome.text)) = None

\* The request ended in the branch it takes when no JSON was obtained.
DefaultBranch ==
    \/ /\ route = "evaluate_answer"
       /\ resp = api_response(CurrentEvaluation(DefaultEvaluation), FALSE, 200)
    \/ /\ route = "generate_job_queries"
       /\ resp = api_response(NoClearMatchPayload, FALSE, 200)

SinglePrompt == pc = "done" /\ route \in {"evaluate_answer", "generate_job_queries"}

Accepted == resp.code # 400

\* C4: in analyze_cv and analyze_cv_quality no outcome of a chunk makes the
\* accepted request end in an error response or an unhandled exception.
C4_ChunkFailureAbsorbed ==
    ((Done("analyze_cv") \/ Done("analyze_cv_quality")) /\ Accepted)
        => resp.status = "ok" /\ resp.code = 200 /\ ~resp.unhandled

IntegerScores(values) == \A i \in 1..Len(values) : values[i].t = "num"

\* r is s / n rounded to the nearest integer (either one at a half).
Nearest(r, s, n) ==
    LET d == s - r * n IN 2 * (IF d >= 0 THEN d ELSE 0 - d) <= n

\* r is s / n with the fraction dropped.
Truncated(r, s, n) ==
    IF s >= 0 THEN r * n <= s /\ s < r * n + n
    ELSE r * n >= s /\ s > r * n - n

\* The scores a finished request returned, each with the per-chunk values
\* it aggregates.
Aggregated ==
    IF Done("analyze_cv") /\ resp.code = 200 /\ chunk_scores # <<>>
    THEN {<<resp.payload.o[CP], chunk_scores>>}
    ELSE IF Done("analyze_cv_quality") /\ resp.code = 200 /\ quality.clarity # <<>>
    THEN { <<resp.payload.o[CLARITY], quality.clarity>>,
           <<resp.payload.o[RELEVANCE], quality.relevance>>,
           <<resp.payload.o[STRUCTURE], quality.structure>> }
    ELSE {}

\* C8, as stated: the score returned is the mean of the per-chunk integer
\* scores rounded to the nearest integer.
C8_MeanRounded ==
    \A agg \in Aggregated :
        IntegerScores(agg[2]) => Nearest(agg[1].n, Sum(agg[2]), Len(agg[2]))

\* C8, amended: the score returned is the mean of the per-chunk integer
\* scores truncated toward zero.
C8_MeanTruncated ==
    \A agg \in Aggregated :
        IntegerScores(agg[2]) =>
            agg[1].t = "num" /\ Truncated(agg[1].n, Sum(agg[2]), Len(agg[2]))

\* analyze_cv returned 70 for the per-chunk scores 71, 71 and 70 in some
\* order, whose mean is 70.67.
C8_Witness ==
    /\ Done("analyze_cv")
    /\ resp.code = 200
    /\ Len(chunk_scores) = 3
    /\ IntegerScores(chunk_scores)
    /\ Sum(chunk_scores) = 212
    /\ resp.payload.o[CP] = JNum(70)

\* C10: analyze_cv sends one request per pair of zip_longest(cv_chunks,
\* job_chunks), in order, pair i holding CV chunk i and job chunk i or ""
\* for a missing one: every chunk of both texts is sent once.
C10_EveryChunkSent ==
    (Done("analyze_cv") /\ Accepted) =>
        /\ Len(sent) = Max(Len(cv_chunks), Len(job_chunks))
        /\ \A i \in 1..Len(sent) :
               /\ sent[i][1] = (IF i <= Len(cv_chunks) THEN cv_chunks[i] ELSE <<>>)
               /\ sent[i][2] = (IF i <= Len(job_chunks) THEN job_chunks[i] ELSE <<>>)

\* What gemini_text returned for the last prompt: the trimmed text of the
\* last provider invoked, or "" when it raised or none was invoked.
LastReturned ==
    IF trace = <<>> \/ trace[Len(trace)].outcome.err THEN <<>>
    ELSE Strip(trace[Len(trace)].outcome.text)

\* C11: in analyze_cv, when the rewrite call fails on every provider or
\* returns a text that is empty after trimming, the feedback returned is the
\* per-chunk feedback texts joined in chunk order, and it is not empty.
C11_RewriteFallback ==
    (Done("analyze_cv") /\ resp.code = 200 /\ Strip(LastReturned) = <<>>) =>
        /\ resp.payload.o[FM] = JStr(Join(<<NL, NL>>, chunk_feedbacks))
        /\ resp.payload.o[FM].s # <<>>

\* The providers a prompt can be sent to, in priority order.
Priority ==
    (IF USE_GROQ /\ groq_client THEN <<"groq">> ELSE <<>>)
        \o (IF gemini_client THEN <<"gemini">> ELSE <<>>)

\* The call gave a text that is not empty after trimming.
Succeeded(call) == ~call.outcome.err /\ Strip(call.outcome.text) # <<>>

\* C13: for one prompt, the providers invoked are a prefix of the priority
\* list (Groq, then Gemini, those configured): each at most once, in order,
\* and none after one has succeeded.  In gemini_text and in the routes that
\* call groq_text and then gemini_text.
C13_InvocationOrder ==
    pc = "done" =>
        /\ Len(trace) <= Len(Priority)
        /\ \A i \in 1..Len(trace) :
               /\ trace[i].provider = Priority[i]
               /\ i < Len(trace) => ~Succeeded(trace[i])

\* C14: after any sequence of requests MEMORY["cv_text"] is None or a
\* non-empty normalized text; the empty string is never stored.
C14_MemorySlot ==
    \/ MEMORY.cv_text.none
    \/ /\ MEMORY.cv_text.text # <<>>
       /\ clean_text(MEMORY.cv_text.text) = MEMORY.cv_text.text

\* C15: a request that ends in an error response (400, 500 or 503) leaves
\* MEMORY["cv_text"] as it was when the request started.
C15_MemoryUnchangedOnError ==
    (pc = "done" /\ resp.error) => MEMORY.cv_text = memory_before

\* C16: under any interleaving, a check_cv_memory request that starts after
\* a clear_memory request has completed, with no request whose own body
\* carried a CV stored since, reports 404: a request that took its CV from
\* MEMORY does not write it back after the clear.
C16_ClearNotUndone ==
    \A t \in Threads :
        (th_route[t] = "check_cv_memory" /\ th_pc[t] = "done" /\ th_after_clear[t])
            => th_resp[t].code = 404

====
